---------------------------- MODULE Spec2Model ----------------------------
(***************************************************************************)
(* Model of cdnbuddy-intent: the NATS request dispatcher, the intent       *)
(* handler, the LLM response parsers, the Anthropic provider and the       *)
(* conversation memory manager with its Redis store.                       *)
(*                                                                         *)
(* The specifications:                                                     *)
(*   Spec          the service as main() wires it: the NATS subscription   *)
(*                 delivers messages to handleIntentRequest, which runs    *)
(*                 IntentHandler.ProcessIntent.  ProcessIntent obtains the *)
(*                 completion from IntentHandler.callLLM, which in the     *)
(*                 source is a placeholder returning a fixed text; it      *)
(*                 never calls the provider.                               *)
(*   SpecProvider  AnthropicProvider.AnalyzeIntent (the LLMProvider        *)
(*                 interface) and the memory Manager driven by concurrent  *)
(*                 callers, with the Redis store and the HTTP backend as   *)
(*                 the environment.                                        *)
(*   SpecTurn      one caller of AnalyzeIntent, turn after turn;           *)
(*                 SpecTurnFair adds the scheduling of its goroutine.      *)
(*   SpecMemory    the Manager's writing methods under concurrent callers. *)
(*   SpecSerial    one caller of the Manager's methods, call after call.   *)
(*   SpecAppends   one caller appending turns, the Store available.        *)
(*   SpecRestart   one caller in a process started over earlier records.   *)
(*   SpecUsers     one caller appending under user ids of its choosing.    *)
(*   SpecRace      concurrent appends, the Store available, then one more  *)
(*                 GetOrCreateSession with nothing else running.           *)
(*   SpecFollowUp  one caller appending and clearing while the Store may   *)
(*                 fail, then one more load and one more history read.     *)
(*   SpecParse     the pure parsing functions applied to bounded           *)
(*                 completion texts.                                       *)
(***************************************************************************)
EXTENDS Integers, Sequences, FiniteSets, TLC

(***************************************************************************)
(* Program constants (models package, prompts package, transport).         *)
(***************************************************************************)
StatusNeedsInfo == "NEEDS_INFO"
StatusReady == "READY"
StatusError == "ERROR"

ErrorLLMTimeout == "LLM_API_TIMEOUT"
ErrorLLMFailed == "LLM_API_FAILED"
ErrorParseError == "PARSE_ERROR"

FallbackMessage == "I didn't understand your request clearly. Could you please rephrase what you'd like me to help you with regarding CDN setup or management?"

\* The literal text of NATSTransport.sendErrorResponse.
TransportErrorMessage == "I'm sorry, I encountered an error processing your request. Please try again."

\* The literal text validateAndCleanResponse substitutes for an empty user_message.
ClarifyMessage == "How can I help you with your CDN setup?"

\* The sentinel of Manager.GetFormattedHistory (also AnalyzeIntent's fallback).
NoHistory == "No previous conversation."

\* Go's nil for *string and for map[string]*string, and the empty map.
Nil == "<nil>"
EmptyMap == "{}"

(***************************************************************************)
(* Texts.  A completion text is a sequence of lexical tokens: an opening   *)
(* brace, a closing brace, a word of prose, or a JSON member "key": value. *)
(* A member's value is a JSON string (v), JSON null (JNull) or a JSON      *)
(* number (JNum); the value of "parameters" is an object, written as the   *)
(* Go map it decodes to.                                                   *)
(***************************************************************************)
JNull == "<json null>"
JNum == "<json number>"

LB == [t |-> "{", k |-> "", v |-> ""]
RB == [t |-> "}", k |-> "", v |-> ""]
Word == [t |-> "w", k |-> "", v |-> ""]
Member(key, val) == [t |-> "m", k |-> key, v |-> val]

\* strings.Index(content, "{"): the first index holding tok, 0 when none
\* (Go's -1; sequences are 1-based).
Index(content, tok) ==
    IF \E i \in 1..Len(content) : content[i] = tok
    THEN CHOOSE i \in 1..Len(content) :
            /\ content[i] = tok
            /\ \A j \in 1..(i - 1) : content[j] # tok
    ELSE 0

\* strings.LastIndex(content, "}").
LastIndex(content, tok) ==
    IF \E i \in 1..Len(content) : content[i] = tok
    THEN CHOOSE i \in 1..Len(content) :
            /\ content[i] = tok
            /\ \A j \in (i + 1)..Len(content) : content[j] # tok
    ELSE 0

\* extractJSON stopping at the first "}" instead of the last.
extractJSON_ToFirstClose(content) ==
    LET start == Index(content, LB)
        end == Index(content, RB)
    IN  IF start = 0 THEN <<>>
        ELSE IF end = 0 \/ end <= start THEN <<>>
        ELSE SubSeq(content, start, end)

\* prompts.extractJSON and AnthropicProvider.extractJSON (identical bodies):
\* the span from the first "{" to the last "}", or the empty text.
extractJSON(content) ==
    LET start == Index(content, LB)
        end == LastIndex(content, RB)
    IN  IF start = 0 THEN <<>>
        ELSE IF end = 0 \/ end <= start THEN <<>>
        ELSE SubSeq(content, start, end)

\* The zero value of models.IntentResponse.
ZeroResponse ==
    [session_id |-> "", action |-> Nil, status |-> "", parameters |-> Nil,
     user_message |-> "", error_code |-> Nil, error_message |-> Nil]

\* The members of a span that lie strictly between its first and last token.
Inner(span) == SubSeq(span, 2, Len(span) - 1)

\* encoding/json syntax check: one object, members only between the braces.
ValidJSON(span) ==
    /\ Len(span) >= 2
    /\ span[1] = LB
    /\ span[Len(span)] = RB
    /\ \A i \in 2..(Len(span) - 1) : span[i].t = "m"

StringKeys == {"session_id", "action", "status", "user_message"}
KnownKeys == StringKeys \cup {"parameters"}

\* json.Unmarshal reports an UnmarshalTypeError when a number meets a string
\* or map field.
TypeError(span) ==
    \E i \in 2..(Len(span) - 1) : span[i].k \in KnownKeys /\ span[i].v = JNum

\* The value json.Unmarshal leaves in the field for key: members are applied
\* in order onto the zero value; null leaves a string as it is and sets a
\* pointer or a map to nil.
RECURSIVE Decoded(_, _, _)
Decoded(members, key, acc) ==
    IF members = <<>> THEN acc
    ELSE LET m == Head(members)
             next == IF m.k # key THEN acc
                     ELSE IF m.v = JNull
                          THEN (IF key \in {"action", "parameters"} THEN Nil ELSE acc)
                          ELSE m.v
         IN  Decoded(Tail(members), key, next)

\* json.Unmarshal([]byte(jsonContent), &response) for models.IntentResponse.
Unmarshal(span) ==
    IF ~ValidJSON(span) THEN [err |-> "syntax", response |-> ZeroResponse]
    ELSE IF TypeError(span) THEN [err |-> "type", response |-> ZeroResponse]
    ELSE [err |-> "",
          response |->
            [session_id |-> Decoded(Inner(span), "session_id", ""),
             action |-> Decoded(Inner(span), "action", Nil),
             status |-> Decoded(Inner(span), "status", ""),
             parameters |-> Decoded(Inner(span), "parameters", Nil),
             user_message |-> Decoded(Inner(span), "user_message", ""),
             error_code |-> Nil,
             error_message |-> Nil]]

\* prompts.ParseLLMResponse.
ParseLLMResponse(content) ==
    LET jsonContent == extractJSON(content)
    IN  IF jsonContent = <<>>
        THEN [err |-> "no valid JSON found in response", response |-> ZeroResponse]
        ELSE LET u == Unmarshal(jsonContent)
                 r1 == IF u.response.status = ""
                       THEN [u.response EXCEPT !.status = StatusError,
                                               !.user_message = FallbackMessage]
                       ELSE u.response
                 r2 == IF r1.parameters = Nil
                       THEN [r1 EXCEPT !.parameters = EmptyMap]
                       ELSE r1
             IN  IF u.err # ""
                 THEN [err |-> "failed to parse JSON", response |-> ZeroResponse]
                 ELSE [err |-> "", response |-> r2]

\* AnthropicProvider.parseIntentResponse (the memory-integrated provider; the
\* standalone provider's body is the same).
parseIntentResponse(content) ==
    LET jsonContent == extractJSON(content)
    IN  IF jsonContent = <<>>
        THEN [err |-> "no valid JSON found in response", response |-> ZeroResponse]
        ELSE LET u == Unmarshal(jsonContent)
                 r1 == IF u.response.status = ""
                       THEN [u.response EXCEPT !.status = StatusError,
                                               !.user_message = FallbackMessage]
                       ELSE u.response
                 r2 == IF r1.parameters = Nil
                       THEN [r1 EXCEPT !.parameters = EmptyMap]
                       ELSE r1
             IN  IF u.err # ""
                 THEN [err |-> "failed to parse JSON", response |-> ZeroResponse]
                 ELSE [err |-> "", response |-> r2]

validStatuses == {StatusNeedsInfo, StatusReady, StatusError}

\* IntentHandler.validateAndCleanResponse.
validateAndCleanResponse(response) ==
    LET r1 == IF response.status \notin validStatuses
              THEN [response EXCEPT !.status = StatusError,
                                    !.user_message = FallbackMessage]
              ELSE response
        r2 == IF r1.parameters = Nil THEN [r1 EXCEPT !.parameters = EmptyMap] ELSE r1
    IN  IF r2.user_message = ""
        THEN [r2 EXCEPT !.user_message = ClarifyMessage]
        ELSE r2

(***************************************************************************)
(* Bounds of the model.                                                    *)
(***************************************************************************)
\* Messages published on the request subject in one run.
MaxMsgs == 2

\* AnalyzeIntent calls made in one run.
MaxCalls == 2
\* The last instant of the wall clock.
MaxClock == 1
\* The longest completion text handed to the parsers, in tokens.
MaxContentLen == 4
\* The most messages a session record left in Redis by an earlier run holds.
MaxStored == 2

SessionIds == {"s1", "s2"}
UserTexts == {"hi"}
\* The concurrent callers of the provider.
Tasks == {"t1", "t2"}

(***************************************************************************)
(* State.                                                                  *)
(***************************************************************************)
VARIABLES
    msgs,       \* the bodies of the messages published so far; a message's id
                \* is its position
    inbox,      \* ids pending on the subscription, in delivery order
    sent,       \* per message, the responses handed to msg.Respond, in order
    delivered,  \* per message, how many msg.Respond calls succeeded
    proc,       \* per message, what ProcessIntent returned (or that it was
                \* not called)
    now,        \* the wall clock
    store,      \* Redis: session id -> the JSON text stored under its key
    sessions,   \* Manager.sessions: session id -> the cached buffer (a pointer)
    bufs,       \* the ConversationBuffers allocated so far; a pointer is a position
    tasks,      \* the callers of the provider: position in the code and locals
    calls,      \* AnalyzeIntent calls started so far
    parseIn,    \* a completion text and a request handed to the parsers
    parseOut    \* what the parsers made of it

dispatchVars == <<msgs, inbox, sent, delivered, proc>>
memoryVars == <<now, store, sessions, bufs>>
providerVars == <<now, store, sessions, bufs, tasks, calls>>
parseVars == <<parseIn, parseOut>>
vars == <<msgs, inbox, sent, delivered, proc, now, store, sessions, bufs, tasks, calls,
          parseIn, parseOut>>

(***************************************************************************)
(* models.IntentRequest, reduced to the fields the handler reads.  The     *)
(* conversation_history and available_actions only feed the prompt text.   *)
(***************************************************************************)
ZeroRequest == [session_id |-> "", user_message |-> ""]

\* An inbound body: whether it is syntactically JSON, and what it holds for
\* the two members ("" stands for absent, null or the empty string).
Bodies ==
    [syntax_ok : BOOLEAN,
     session_id : SessionIds \cup {"", JNum},
     user_message : UserTexts \cup {"", JNum}]

\* A member as json.Unmarshal leaves it in a string field.
DecodeString(val) == IF val = JNum THEN "" ELSE val

\* json.Unmarshal(msg.Data, &request): a syntax error is found before
\* anything is decoded; a type error skips that member and decodes the rest.
UnmarshalRequest(data) ==
    IF ~data.syntax_ok THEN [err |-> "syntax", request |-> ZeroRequest]
    ELSE [err |-> IF JNum \in {data.session_id, data.user_message}
                  THEN "type" ELSE "",
          request |-> [session_id |-> DecodeString(data.session_id),
                       user_message |-> DecodeString(data.user_message)]]

\* validateRequest with the user_message check forgotten.
validateRequest_SessionOnly(request) ==
    IF request.session_id = "" THEN "session_id is required" ELSE ""

\* IntentHandler.validateRequest: the error text, "" for nil.
validateRequest(request) ==
    IF request.session_id = "" THEN "session_id is required"
    ELSE IF request.user_message = "" THEN "user_message is required"
    ELSE ""

\* createErrorResponse leaving Parameters nil.
createErrorResponse_NilParameters(request, errorCode, errorMessage) ==
    [session_id |-> request.session_id,
     action |-> Nil,
     status |-> StatusError,
     parameters |-> Nil,
     user_message |-> FallbackMessage,
     error_code |-> errorCode,
     error_message |-> errorMessage]

\* IntentHandler.createErrorResponse.
createErrorResponse(request, errorCode, errorMessage) ==
    [session_id |-> request.session_id,
     action |-> Nil,
     status |-> StatusError,
     parameters |-> EmptyMap,
     user_message |-> FallbackMessage,
     error_code |-> errorCode,
     error_message |-> errorMessage]

\* The completion text IntentHandler.callLLM returns.
StubContent ==
    <<LB,
      Member("action", "CREATE_SERVICE"),
      Member("status", StatusNeedsInfo),
      Member("parameters", "{domain_name:null}"),
      Member("user_message", "I can help you setup a CDN! What would you like to name your service?"),
      RB>>

\* IntentHandler.callLLM: a placeholder; it reads neither its context nor its
\* request, calls no backend and returns this text with a nil error.
callLLM == [content |-> StubContent, err |-> ""]

\* IntentHandler.ProcessIntent from the return of callLLM on: the error
\* check, ParseLLMResponse, the session id, validateAndCleanResponse.
ProcessLLMResponse(request, llm) ==
    LET parsed == ParseLLMResponse(llm.content)
        stamped == [parsed.response EXCEPT !.session_id = request.session_id]
    IN  IF llm.err # ""
        THEN [response |-> createErrorResponse(request, ErrorLLMFailed, llm.err),
              err |-> ""]
        ELSE IF parsed.err # ""
        THEN [response |-> createErrorResponse(request, ErrorParseError,
                                               "Failed to understand response"),
              err |-> ""]
        ELSE [response |-> validateAndCleanResponse(stamped), err |-> ""]

\* ProcessIntent handing the validation error back to its caller.
ProcessIntent_ReturnsError(request) ==
    LET verr == validateRequest(request)
    IN  IF verr # ""
        THEN [response |-> ZeroResponse, err |-> verr]
        ELSE ProcessLLMResponse(request, callLLM)

\* IntentHandler.ProcessIntent: the (response, error) pair it returns.
ProcessIntent(request) ==
    LET verr == validateRequest(request)
    IN  IF verr # ""
        THEN [response |-> createErrorResponse(request, ErrorParseError, verr),
              err |-> ""]
        ELSE ProcessLLMResponse(request, callLLM)

\* sendErrorResponse not copying the request's session id.
sendErrorResponse_NoSession(request, errorCode, errorMessage) ==
    [session_id |-> "",
     action |-> Nil,
     status |-> StatusError,
     parameters |-> EmptyMap,
     user_message |-> TransportErrorMessage,
     error_code |-> errorCode,
     error_message |-> errorMessage]

\* The response NATSTransport.sendErrorResponse builds.
sendErrorResponse(request, errorCode, errorMessage) ==
    [session_id |-> request.session_id,
     action |-> Nil,
     status |-> StatusError,
     parameters |-> EmptyMap,
     user_message |-> TransportErrorMessage,
     error_code |-> errorCode,
     error_message |-> errorMessage]

NotCalled == [called |-> FALSE, response |-> ZeroResponse, err |-> ""]

\* handleIntentRequest with the return after the parse-error reply missing:
\* it goes on to run the handler and replies again.
handleIntentRequest_NoReturn(data) ==
    LET u == UnmarshalRequest(data)
        p == ProcessIntent(u.request)
        first == IF u.err # ""
                 THEN <<[session_id |-> u.request.session_id,
                         action |-> Nil,
                         status |-> StatusError,
                         parameters |-> EmptyMap,
                         user_message |-> TransportErrorMessage,
                         error_code |-> ErrorParseError,
                         error_message |-> "Invalid request format"]>>
                 ELSE <<>>
    IN  [sends |-> first \o <<p.response>>,
         proc |-> [called |-> TRUE, response |-> p.response, err |-> p.err]]

\* NATSTransport.handleIntentRequest: the responses it hands to msg.Respond,
\* in order, and what ProcessIntent returned to it.
handleIntentRequest(data) ==
    LET u == UnmarshalRequest(data)
        p == ProcessIntent(u.request)
    IN  IF u.err # ""
        THEN [sends |-> <<sendErrorResponse(u.request, ErrorParseError,
                                            "Invalid request format")>>,
              proc |-> NotCalled]
        ELSE IF p.err # ""
        THEN [sends |-> <<sendErrorResponse(u.request, ErrorLLMFailed, p.err)>>,
              proc |-> [called |-> TRUE, response |-> p.response, err |-> p.err]]
        ELSE [sends |-> <<p.response>>,
              proc |-> [called |-> TRUE, response |-> p.response, err |-> p.err]]

(***************************************************************************)
(* The dispatcher.                                                         *)
(***************************************************************************)
DispatchInit ==
    /\ msgs = <<>>
    /\ inbox = <<>>
    /\ sent = <<>>
    /\ delivered = <<>>
    /\ proc = <<>>

\* A client publishes a message on the request subject.
Publish(data) ==
    /\ Len(msgs) < MaxMsgs
    /\ msgs' = Append(msgs, data)
    /\ inbox' = Append(inbox, Len(msgs) + 1)
    /\ sent' = Append(sent, <<>>)
    /\ delivered' = Append(delivered, 0)
    /\ proc' = Append(proc, NotCalled)
    /\ UNCHANGED <<providerVars, parseVars>>

\* The subscription calls handleIntentRequest on its next pending message.
\* The callback runs to completion; msg.Respond succeeds or fails (no reply
\* subject, connection closed), and a failure is only logged.
Deliver(respondOk) ==
    /\ inbox # <<>>
    /\ LET m == Head(inbox)
           h == handleIntentRequest(msgs[m])
       IN  /\ sent' = [sent EXCEPT ![m] = h.sends]
           /\ delivered' = [delivered EXCEPT ![m] = IF respondOk THEN Len(h.sends) ELSE 0]
           /\ proc' = [proc EXCEPT ![m] = h.proc]
    /\ inbox' = Tail(inbox)
    /\ UNCHANGED <<msgs, providerVars, parseVars>>

(***************************************************************************)
(* The Redis store (memory.RedisStore) and its records.                    *)
(***************************************************************************)
\* time.Now(): a wall-clock instant carrying a monotonic reading.
TimeNow == [wall |-> now, mono |-> TRUE]

\* time.Time through MarshalJSON and UnmarshalJSON (RFC 3339): the instant is
\* kept, the monotonic reading is dropped.
TimeJSON(t) == [wall |-> t.wall, mono |-> FALSE]

MessageJSON(m) ==
    [role |-> m.role, content |-> m.content, timestamp |-> TimeJSON(m.timestamp)]

\* The trip through JSON with the metadata member left out of the text.
SessionJSON_NoMetadata(session) ==
    [session_id |-> session.session_id,
     user_id |-> session.user_id,
     messages |-> [i \in 1..Len(session.messages) |-> MessageJSON(session.messages[i])],
     started_at |-> [wall |-> 0, mono |-> FALSE],
     last_activity |-> [wall |-> 0, mono |-> FALSE],
     message_count |-> 0]

\* json.Marshal(session) followed, on the read side, by json.Unmarshal: what a
\* SessionData is after a trip through its JSON text.
SessionJSON(session) ==
    [session_id |-> session.session_id,
     user_id |-> session.user_id,
     messages |-> [i \in 1..Len(session.messages) |-> MessageJSON(session.messages[i])],
     started_at |-> TimeJSON(session.started_at),
     last_activity |-> TimeJSON(session.last_activity),
     message_count |-> session.message_count]

\* RedisStore.LoadSession with Redis answering: the stored record, or the
\* empty session when the key is absent (redis.Nil).
LoadSession(sessionID) ==
    IF sessionID \in DOMAIN store
    THEN store[sessionID]
    ELSE [session_id |-> sessionID,
          user_id |-> "",
          messages |-> <<>>,
          started_at |-> TimeNow,
          last_activity |-> TimeNow,
          message_count |-> 0]

\* RedisStore.SaveMessage counting the messages before the append.
SaveMessageUpdate_CountBeforeAppend(session, userID, msg) ==
    LET s1 == IF session.user_id = "" THEN [session EXCEPT !.user_id = userID]
              ELSE session
        s2 == [s1 EXCEPT !.messages = Append(s1.messages, msg)]
        s3 == [s2 EXCEPT !.last_activity = TimeNow,
                         !.message_count = Len(s1.messages)]
    IN  IF s3.message_count = 1
        THEN [s3 EXCEPT !.started_at = msg.timestamp]
        ELSE s3

\* RedisStore.SaveMessage overwriting the user id on every append.
SaveMessageUpdate_AlwaysSetsUser(session, userID, msg) ==
    LET s1 == [session EXCEPT !.user_id = userID]
        s2 == [s1 EXCEPT !.messages = Append(s1.messages, msg)]
        s3 == [s2 EXCEPT !.last_activity = TimeNow,
                         !.message_count = Len(s2.messages)]
    IN  IF s3.message_count = 1
        THEN [s3 EXCEPT !.started_at = msg.timestamp]
        ELSE s3

\* RedisStore.SaveMessage after its load: the record it hands to saveSession.
SaveMessageUpdate(session, userID, msg) ==
    LET s1 == IF session.user_id = "" THEN [session EXCEPT !.user_id = userID]
              ELSE session
        s2 == [s1 EXCEPT !.messages = Append(s1.messages, msg)]
        s3 == [s2 EXCEPT !.last_activity = TimeNow,
                         !.message_count = Len(s2.messages)]
    IN  IF s3.message_count = 1
        THEN [s3 EXCEPT !.started_at = msg.timestamp]
        ELSE s3

\* saveSession as an append at the Store: when the stored record already
\* holds as many messages as the one being saved, the last message of the
\* saved record is added to the stored one instead of replacing it.
saveSession_AppendsAtStore(session) ==
    LET sid == session.session_id
        new == SessionJSON(session)
        merge == /\ sid \in DOMAIN store
                 /\ Len(new.messages) > 0
                 /\ Len(store[sid].messages) >= Len(new.messages)
    IN  [k \in DOMAIN store \cup {sid} |->
            IF k # sid THEN store[k]
            ELSE IF merge
            THEN [store[sid] EXCEPT
                    !.messages = Append(@, new.messages[Len(new.messages)]),
                    !.message_count = Len(store[sid].messages) + 1,
                    !.last_activity = new.last_activity]
            ELSE new]

\* RedisStore.saveSession with Redis answering: SET key <json> EX ttl.
saveSession(session) ==
    [k \in DOMAIN store \cup {session.session_id} |->
        IF k = session.session_id THEN SessionJSON(session) ELSE store[k]]

(***************************************************************************)
(* The memory manager (memory.Manager).                                    *)
(***************************************************************************)
\* The chat message GetOrCreateSession builds for a stored message; unknown
\* roles are skipped.
ChatType_AllHuman(role) ==
    CASE role = "user" -> "human"
      [] role = "assistant" -> "human"
      [] role = "system" -> "human"
      [] OTHER -> ""

ChatType(role) ==
    CASE role = "user" -> "human"
      [] role = "assistant" -> "ai"
      [] role = "system" -> "system"
      [] OTHER -> ""

RECURSIVE Replay(_)
Replay(messages) ==
    IF messages = <<>> THEN <<>>
    ELSE LET m == Head(messages)
         IN  IF ChatType(m.role) = "" THEN Replay(Tail(messages))
             ELSE <<[type |-> ChatType(m.role), content |-> m.content]>>
                  \o Replay(Tail(messages))

\* A formatted text is the sequence of the pieces fmt.Sprintf joins.
NewLine == "\n"

\* The type switch of GetFormattedHistory with every message labelled as the
\* user's.
HistoryLine_AllUser(m) ==
    CASE m.type = "human" -> <<"User: ", m.content, NewLine>>
      [] m.type = "ai" -> <<"User: ", m.content, NewLine>>
      [] m.type = "system" -> <<"User: ", m.content, NewLine>>
      [] OTHER -> <<>>

\* One line of Manager.GetFormattedHistory: fmt.Sprintf("User: %s\n", ...)
\* and its siblings; the type switch has no default.
HistoryLine(m) ==
    CASE m.type = "human" -> <<"User: ", m.content, NewLine>>
      [] m.type = "ai" -> <<"Assistant: ", m.content, NewLine>>
      [] m.type = "system" -> <<"System: ", m.content, NewLine>>
      [] OTHER -> <<>>

\* formatted += ... over the messages, in order.
RECURSIVE FormatMessages(_)
FormatMessages(messages) ==
    IF messages = <<>> THEN <<>>
    ELSE HistoryLine(Head(messages)) \o FormatMessages(Tail(messages))

\* Manager.GetFormattedHistory on the messages of the buffer it obtained: the
\* sentinel, or one line per message.
GetFormattedHistory(buffer) ==
    IF Len(buffer) = 0 THEN <<NoHistory>>
    ELSE FormatMessages(buffer)

(***************************************************************************)
(* The provider (llm.AnthropicProvider, memory-integrated).                *)
(***************************************************************************)
\* userID := "user_" + request.SessionID, for the session ids of the model.
UserIDOf(sessionID) ==
    CASE sessionID = "s1" -> "user_s1"
      [] sessionID = "s2" -> "user_s2"
      [] OTHER -> "user_"

NoSession ==
    [session_id |-> "", user_id |-> "", messages |-> <<>>,
     started_at |-> [wall |-> 0, mono |-> FALSE],
     last_activity |-> [wall |-> 0, mono |-> FALSE],
     message_count |-> 0]

NoMessage == [role |-> "", content |-> "", timestamp |-> [wall |-> 0, mono |-> FALSE]]

IdleTask ==
    [pc |-> "idle",
     req |-> ZeroRequest,
     phase |-> "",
     buf |-> 0,
     rec |-> NoSession,
     msg |-> NoMessage,
     http |-> "",
     content |-> <<>>,
     resp |-> ZeroResponse,
     err |-> "",
     memErr |-> FALSE,
     hist |-> <<>>,
     userID |-> ""]

\* Completion texts the backend may answer with.
Completions ==
    { <<Word, LB, Member("session_id", "other"), Member("status", StatusReady),
        Member("parameters", "{domain_name:foo}"), Member("user_message", "ok"), RB, Word>>,
      <<LB, Member("status", "DONE"), Member("user_message", "ok"), RB>>,
      <<LB, Member("status", StatusNeedsInfo), RB>>,
      <<Word>> }

\* How the HTTP exchange of AnalyzeIntent can end: a 200 with a completion,
\* the context deadline (or client timeout) expiring, a transport error, a
\* non-200 status.
HttpFailures == {"timeout", "transport", "status"}

\* The error AnalyzeIntent returns for a failed exchange.
HttpError(kind) ==
    CASE kind = "timeout" -> "failed to make HTTP request: context deadline exceeded"
      [] kind = "transport" -> "failed to make HTTP request: transport error"
      [] kind = "status" -> "anthropic API error: <backend message>"

\* The Manager methods a caller can invoke directly; a task's phase names the
\* Manager call it is in.
ManagerCalls ==
    {"GetOrCreateSession", "SaveUserMessage", "SaveAssistantMessage",
     "GetFormattedHistory", "UpdateActivity", "ClearSession"}

\* The calls that concurrent callers are checked with.  GetFormattedHistory
\* is GetOrCreateSession followed by a read of the buffer it returned, so
\* it adds no write of its own to an interleaving.
ConcurrentCalls == ManagerCalls \ {"GetFormattedHistory"}

ProviderInit ==
    /\ now = 0
    /\ store = <<>>
    /\ sessions = <<>>
    /\ bufs = <<>>
    /\ tasks = [t \in Tasks |-> IdleTask]
    /\ calls = 0

\* Task t is not inside a call.
Free(t) == tasks[t].pc \in {"idle", "done"}

\* Task t can take a new call.  The tasks are interchangeable, so the second
\* one takes a call only while the first is busy.
CanStart(t) == Free(t) /\ (t = "t2" => ~Free("t1"))

\* The session ids are interchangeable as well: the first call ever made is
\* on "s1".
FirstOnS1(request) == calls = 0 => request.session_id = "s1"

\* The wall clock advances.  Only running calls read it, so its advance is
\* observed only while a call is running.
Tick ==
    /\ now < MaxClock
    /\ \E t \in Tasks : ~Free(t)
    /\ now' = now + 1
    /\ UNCHANGED <<store, sessions, bufs, tasks, calls, dispatchVars, parseVars>>

\* A caller invokes AnalyzeIntent(ctx, request); its first statement calls
\* Manager.SaveUserMessage, which calls GetOrCreateSession.
StartAnalyzeIntent(t, request) ==
    /\ CanStart(t)
    /\ FirstOnS1(request)
    /\ calls < MaxCalls
    /\ calls' = calls + 1
    /\ tasks' = [tasks EXCEPT ![t] =
                    [IdleTask EXCEPT !.pc = "goc_lookup", !.req = request,
                                     !.phase = "user",
                                     !.userID = UserIDOf(request.session_id)]]
    /\ UNCHANGED <<now, store, sessions, bufs, dispatchVars, parseVars>>

\* AnalyzeIntent turning its result into an ERROR when the Manager call of
\* its phase returned an error.
AfterPhase_EscalatesStoreError(task) ==
    LET failed == [task EXCEPT !.resp = [task.resp EXCEPT !.status = StatusError,
                                                          !.error_code = ErrorLLMFailed]]
        after == IF task.memErr THEN failed ELSE task
    IN  CASE task.phase = "user" ->
                [after EXCEPT !.pc = "goc_lookup", !.phase = "history", !.buf = 0]
          [] task.phase = "history" ->
                [after EXCEPT !.pc = "http", !.phase = "", !.buf = 0]
          [] task.phase = "assistant" ->
                [after EXCEPT !.pc = "done", !.phase = "", !.buf = 0]
          [] task.phase \in ManagerCalls ->
                [IdleTask EXCEPT !.pc = "done", !.phase = task.phase, !.req = task.req,
                                 !.memErr = task.memErr, !.userID = task.userID]

\* Where a task goes when the Manager call of its phase has returned, with
\* or without an error (AnalyzeIntent logs the error and continues).
AfterPhase(task) ==
    CASE task.phase = "user" ->
            [task EXCEPT !.pc = "goc_lookup", !.phase = "history", !.buf = 0]
      [] task.phase = "history" ->
            [task EXCEPT !.pc = "http", !.phase = "", !.buf = 0]
      [] task.phase = "assistant" ->
            [task EXCEPT !.pc = "done", !.phase = "", !.buf = 0]
      [] task.phase \in ManagerCalls ->
            [IdleTask EXCEPT !.pc = "done", !.phase = task.phase, !.req = task.req,
                             !.memErr = task.memErr, !.userID = task.userID]

\* Where a task goes when GetOrCreateSession has returned the buffer b.
AfterGetOrCreate(task, b) ==
    IF task.phase = "history"
    THEN AfterPhase(task)
    ELSE IF task.phase = "GetOrCreateSession"
    THEN [IdleTask EXCEPT !.pc = "done", !.phase = task.phase, !.req = task.req,
                          !.buf = b]
    ELSE IF task.phase = "GetFormattedHistory"
    THEN [task EXCEPT !.pc = "history_read", !.buf = b]
    ELSE [task EXCEPT !.pc = "add_msg", !.buf = b]

\* Manager.GetOrCreateSession, the cache lookup.
GocLookup(t) ==
    /\ tasks[t].pc = "goc_lookup"
    /\ LET sid == tasks[t].req.session_id
       IN  tasks' = [tasks EXCEPT ![t] =
                IF sid \in DOMAIN sessions
                THEN AfterGetOrCreate(tasks[t], sessions[sid])
                ELSE [tasks[t] EXCEPT !.pc = "goc_load"]]
    /\ UNCHANGED <<now, store, sessions, bufs, calls, dispatchVars, parseVars>>

\* Manager.GetOrCreateSession, m.store.LoadSession: Redis answers or fails.
GocLoad(t, ok) ==
    /\ tasks[t].pc = "goc_load"
    /\ tasks' = [tasks EXCEPT ![t] =
            IF ok
            THEN [tasks[t] EXCEPT !.pc = "goc_cache",
                                  !.rec = LoadSession(tasks[t].req.session_id)]
            ELSE AfterPhase([tasks[t] EXCEPT !.memErr = TRUE])]
    /\ UNCHANGED <<now, store, sessions, bufs, calls, dispatchVars, parseVars>>

\* Manager.GetOrCreateSession, the replay into a new buffer and the cache
\* insert m.sessions[sessionID] = mem.
GocCache(t) ==
    /\ tasks[t].pc = "goc_cache"
    /\ bufs' = Append(bufs, Replay(tasks[t].rec.messages))
    /\ sessions' = [k \in DOMAIN sessions \cup {tasks[t].req.session_id} |->
                        IF k = tasks[t].req.session_id THEN Len(bufs) + 1
                        ELSE sessions[k]]
    /\ tasks' = [tasks EXCEPT ![t] =
                    AfterGetOrCreate([tasks[t] EXCEPT !.rec = NoSession], Len(bufs) + 1)]
    /\ UNCHANGED <<now, store, calls, dispatchVars, parseVars>>

\* Manager.SaveUserMessage / SaveAssistantMessage after GetOrCreateSession:
\* the message is added to the buffer and the Message to store is built.
AddMessage(t) ==
    /\ tasks[t].pc = "add_msg"
    /\ LET user == tasks[t].phase \in {"user", "SaveUserMessage"}
           text == IF tasks[t].phase = "assistant" THEN tasks[t].resp.user_message
                   ELSE tasks[t].req.user_message
       IN  /\ bufs' = [bufs EXCEPT ![tasks[t].buf] =
                        Append(@, [type |-> IF user THEN "human" ELSE "ai",
                                   content |-> text])]
           /\ tasks' = [tasks EXCEPT ![t] =
                        [tasks[t] EXCEPT
                            !.pc = "save_load",
                            !.msg = [role |-> IF user THEN "user" ELSE "assistant",
                                     content |-> text,
                                     timestamp |-> TimeNow]]]
    /\ UNCHANGED <<now, store, sessions, calls, dispatchVars, parseVars>>

\* Manager.GetFormattedHistory called directly, after GetOrCreateSession:
\* mem.ChatHistory.Messages(ctx) and the formatting of what it returned.
FormatHistory(t) ==
    /\ tasks[t].pc = "history_read"
    /\ tasks' = [tasks EXCEPT ![t] =
            [IdleTask EXCEPT !.pc = "done", !.phase = tasks[t].phase,
                             !.req = tasks[t].req, !.buf = tasks[t].buf,
                             !.hist = GetFormattedHistory(bufs[tasks[t].buf])]]
    /\ UNCHANGED <<now, store, sessions, bufs, calls, dispatchVars, parseVars>>

\* RedisStore.SaveMessage, the load of the existing session (GET): Redis
\* answers or fails.
SaveLoad(t, ok) ==
    /\ tasks[t].pc = "save_load"
    /\ tasks' = [tasks EXCEPT ![t] =
            IF ok
            THEN [tasks[t] EXCEPT !.pc = "save_update",
                                  !.rec = LoadSession(tasks[t].req.session_id)]
            ELSE AfterPhase([tasks[t] EXCEPT !.memErr = TRUE, !.msg = NoMessage])]
    /\ UNCHANGED <<now, store, sessions, bufs, calls, dispatchVars, parseVars>>

\* RedisStore.SaveMessage, the update of the loaded record; it reads the
\* clock for last_activity.
SaveUpdate(t) ==
    /\ tasks[t].pc = "save_update"
    /\ tasks' = [tasks EXCEPT ![t] =
            [tasks[t] EXCEPT !.pc = "save_write",
                             !.rec = SaveMessageUpdate(tasks[t].rec,
                                                       tasks[t].userID,
                                                       tasks[t].msg),
                             !.msg = NoMessage]]
    /\ UNCHANGED <<now, store, sessions, bufs, calls, dispatchVars, parseVars>>

\* SaveWrite taking the turn back out of the buffer when the SET fails.
SaveWrite_RollsBack(t, ok) ==
    /\ tasks[t].pc = "save_write"
    /\ store' = IF ok THEN saveSession(tasks[t].rec) ELSE store
    /\ bufs' = IF ok THEN bufs
               ELSE [bufs EXCEPT ![tasks[t].buf] = SubSeq(@, 1, Len(@) - 1)]
    /\ tasks' = [tasks EXCEPT ![t] =
            AfterPhase([tasks[t] EXCEPT !.memErr = IF ok THEN @ ELSE TRUE,
                                        !.rec = NoSession])]
    /\ UNCHANGED <<now, sessions, calls, dispatchVars, parseVars>>

\* RedisStore.SaveMessage, saveSession (SET): Redis stores the record or
\* fails.
SaveWrite(t, ok) ==
    /\ tasks[t].pc = "save_write"
    /\ store' = IF ok THEN saveSession(tasks[t].rec) ELSE store
    /\ tasks' = [tasks EXCEPT ![t] =
            AfterPhase([tasks[t] EXCEPT !.memErr = IF ok THEN @ ELSE TRUE,
                                        !.rec = NoSession])]
    /\ UNCHANGED <<now, sessions, bufs, calls, dispatchVars, parseVars>>

\* A caller invokes a Manager method directly.
StartManagerCall(t, call, request) ==
    /\ CanStart(t)
    /\ FirstOnS1(request)
    /\ calls < MaxCalls
    /\ calls' = calls + 1
    /\ tasks' = [tasks EXCEPT ![t] =
            [IdleTask EXCEPT
                !.pc = CASE call = "UpdateActivity" -> "touch_load"
                         [] call = "ClearSession" -> "clear_cache"
                         [] OTHER -> "goc_lookup",
                !.req = request,
                !.phase = call,
                !.userID = UserIDOf(request.session_id)]]
    /\ UNCHANGED <<now, store, sessions, bufs, dispatchVars, parseVars>>

\* A caller invokes SaveUserMessage or SaveAssistantMessage with a user id
\* of its own choosing.
StartAppendAs(t, call, request, userID) ==
    /\ CanStart(t)
    /\ FirstOnS1(request)
    /\ calls < MaxCalls
    /\ calls' = calls + 1
    /\ tasks' = [tasks EXCEPT ![t] =
            [IdleTask EXCEPT !.pc = "goc_lookup", !.req = request, !.phase = call,
                             !.userID = userID]]
    /\ UNCHANGED <<now, store, sessions, bufs, dispatchVars, parseVars>>

\* Once every allowed call has returned and no caller is inside the Manager,
\* task t makes one more GetFormattedHistory.
StartNextHistory(t, request) ==
    /\ calls = MaxCalls
    /\ \A u \in Tasks : Free(u)
    /\ tasks[t].phase # "GetFormattedHistory"
    /\ tasks' = [tasks EXCEPT ![t] =
            [IdleTask EXCEPT !.pc = "goc_lookup", !.req = request,
                             !.phase = "GetFormattedHistory",
                             !.userID = UserIDOf(request.session_id)]]
    /\ UNCHANGED <<now, store, sessions, bufs, calls, dispatchVars, parseVars>>

\* Once every allowed call has returned and no caller is inside the Manager,
\* task t makes one more GetOrCreateSession: the next load of a session
\* after the calls before it, with nothing else running.
StartNextLoad(t, request) ==
    /\ calls = MaxCalls
    /\ \A u \in Tasks : Free(u)
    /\ tasks[t].phase # "GetOrCreateSession"
    /\ tasks' = [tasks EXCEPT ![t] =
            [IdleTask EXCEPT !.pc = "goc_lookup", !.req = request,
                             !.phase = "GetOrCreateSession",
                             !.userID = UserIDOf(request.session_id)]]
    /\ UNCHANGED <<now, store, sessions, bufs, calls, dispatchVars, parseVars>>

\* RedisStore.UpdateActivity, the load of the session (GET).
TouchLoad(t, ok) ==
    /\ tasks[t].pc = "touch_load"
    /\ tasks' = [tasks EXCEPT ![t] =
            IF ok
            THEN [tasks[t] EXCEPT !.pc = "touch_update",
                                  !.rec = LoadSession(tasks[t].req.session_id)]
            ELSE AfterPhase([tasks[t] EXCEPT !.memErr = TRUE])]
    /\ UNCHANGED <<now, store, sessions, bufs, calls, dispatchVars, parseVars>>

\* RedisStore.UpdateActivity, session.Metadata.LastActivity = time.Now().
TouchUpdate(t) ==
    /\ tasks[t].pc = "touch_update"
    /\ tasks' = [tasks EXCEPT ![t] =
            [tasks[t] EXCEPT !.pc = "touch_write",
                             !.rec = [tasks[t].rec EXCEPT !.last_activity = TimeNow]]]
    /\ UNCHANGED <<now, store, sessions, bufs, calls, dispatchVars, parseVars>>

\* RedisStore.UpdateActivity, saveSession (SET).
TouchWrite(t, ok) ==
    /\ tasks[t].pc = "touch_write"
    /\ store' = IF ok THEN saveSession(tasks[t].rec) ELSE store
    /\ tasks' = [tasks EXCEPT ![t] =
            AfterPhase([tasks[t] EXCEPT !.memErr = IF ok THEN @ ELSE TRUE,
                                        !.rec = NoSession])]
    /\ UNCHANGED <<now, sessions, bufs, calls, dispatchVars, parseVars>>

\* Manager.ClearSession leaving the cache entry in place.
ClearCache_KeepsEntry(t) ==
    /\ tasks[t].pc = "clear_cache"
    /\ tasks' = [tasks EXCEPT ![t] = [tasks[t] EXCEPT !.pc = "clear_del"]]
    /\ UNCHANGED <<now, store, sessions, bufs, calls, dispatchVars, parseVars>>

\* Manager.ClearSession, delete(m.sessions, sessionID).
ClearCache(t) ==
    /\ tasks[t].pc = "clear_cache"
    /\ sessions' = [k \in DOMAIN sessions \ {tasks[t].req.session_id} |-> sessions[k]]
    /\ tasks' = [tasks EXCEPT ![t] = [tasks[t] EXCEPT !.pc = "clear_del"]]
    /\ UNCHANGED <<now, store, bufs, calls, dispatchVars, parseVars>>

\* ClearDel removing the record also when it reports a failure.
ClearDel_DeletesAnyway(t, ok) ==
    /\ tasks[t].pc = "clear_del"
    /\ store' = [k \in DOMAIN store \ {tasks[t].req.session_id} |-> store[k]]
    /\ tasks' = [tasks EXCEPT ![t] =
            AfterPhase([tasks[t] EXCEPT !.memErr = IF ok THEN @ ELSE TRUE])]
    /\ UNCHANGED <<now, sessions, bufs, calls, dispatchVars, parseVars>>

\* RedisStore.ClearSession (DEL): Redis removes the key, present or not, or
\* fails.
ClearDel(t, ok) ==
    /\ tasks[t].pc = "clear_del"
    /\ store' = IF ok
                THEN [k \in DOMAIN store \ {tasks[t].req.session_id} |-> store[k]]
                ELSE store
    /\ tasks' = [tasks EXCEPT ![t] =
            AfterPhase([tasks[t] EXCEPT !.memErr = IF ok THEN @ ELSE TRUE])]
    /\ UNCHANGED <<now, sessions, bufs, calls, dispatchVars, parseVars>>

\* AnalyzeIntent returning the parsed response with the session id the model
\* wrote.
AnalyzeIntentResult_NoStamp(request, content) ==
    LET parsed == parseIntentResponse(content)
    IN  IF parsed.err # ""
        THEN [err |-> "failed to parse intent response", response |-> ZeroResponse]
        ELSE [err |-> "", response |-> parsed.response]

\* AnalyzeIntent from the parsed completion on: what it returns, and whether
\* it goes on to save the assistant message.
AnalyzeIntentResult(request, content) ==
    LET parsed == parseIntentResponse(content)
    IN  IF parsed.err # ""
        THEN [err |-> "failed to parse intent response", response |-> ZeroResponse]
        ELSE [err |-> "",
              response |-> [parsed.response EXCEPT !.session_id = request.session_id]]

\* The HTTP exchange fails: AnalyzeIntent returns (nil, err).
HttpFail(t, kind) ==
    /\ tasks[t].pc = "http"
    /\ tasks' = [tasks EXCEPT ![t] =
                    [tasks[t] EXCEPT !.pc = "done", !.http = kind,
                                     !.err = HttpError(kind)]]
    /\ UNCHANGED <<now, store, sessions, bufs, calls, dispatchVars, parseVars>>

\* AnalyzeIntent going on to SaveAssistantMessage whatever the parse gave.
HttpOk_SavesAlways(t, content) ==
    /\ tasks[t].pc = "http"
    /\ LET r == AnalyzeIntentResult(tasks[t].req, content)
           base == [tasks[t] EXCEPT !.http = "ok", !.content = content,
                                    !.err = r.err, !.resp = r.response]
       IN  tasks' = [tasks EXCEPT ![t] =
                [base EXCEPT !.pc = "goc_lookup", !.phase = "assistant"]]
    /\ UNCHANGED <<now, store, sessions, bufs, calls, dispatchVars, parseVars>>

\* The backend answers 200 with a completion text: AnalyzeIntent parses it,
\* stamps the session id and, when the user_message is not empty, calls
\* Manager.SaveAssistantMessage.
HttpOk(t, content) ==
    /\ tasks[t].pc = "http"
    /\ LET r == AnalyzeIntentResult(tasks[t].req, content)
           base == [tasks[t] EXCEPT !.http = "ok", !.content = content,
                                    !.err = r.err, !.resp = r.response]
       IN  tasks' = [tasks EXCEPT ![t] =
                IF r.err = "" /\ r.response.user_message # ""
                THEN [base EXCEPT !.pc = "goc_lookup", !.phase = "assistant"]
                ELSE [base EXCEPT !.pc = "done"]]
    /\ UNCHANGED <<now, store, sessions, bufs, calls, dispatchVars, parseVars>>

(***************************************************************************)
(* Specifications.                                                         *)
(***************************************************************************)
Requests == [session_id : SessionIds, user_message : UserTexts]

(***************************************************************************)
(* The parsers on bounded texts.                                           *)
(***************************************************************************)
Tokens ==
    {LB, RB, Word}
    \cup {Member("status", x) : x \in {StatusReady, "DONE", "", JNull, JNum}}
    \cup {Member("user_message", x) : x \in {"ok", ""}}
    \cup {Member("parameters", x) : x \in {"{domain_name:foo}", JNull}}
    \cup {Member("session_id", "other")}

Texts == UNION {[1..n -> Tokens] : n \in 0..MaxContentLen}

NoResult == [done |-> FALSE, err |-> "", response |-> ZeroResponse]

ParseIdle ==
    /\ parseIn = [content |-> <<>>, request |-> ZeroRequest]
    /\ parseOut = [handler |-> NoResult, provider |-> NoResult]

ParseInit ==
    /\ parseIn \in [content : Texts, request : Requests]
    /\ parseOut = [handler |-> NoResult, provider |-> NoResult]

\* The handler's path: ProcessIntent on a completion text.
ParseHandler ==
    /\ ~parseOut.handler.done
    /\ LET r == ProcessLLMResponse(parseIn.request,
                                   [content |-> parseIn.content, err |-> ""])
       IN  parseOut' = [parseOut EXCEPT !.handler =
                            [done |-> TRUE, err |-> r.err, response |-> r.response]]
    /\ UNCHANGED <<parseIn, dispatchVars, providerVars>>

\* The provider's path: AnalyzeIntent on a completion text.
ParseProvider ==
    /\ ~parseOut.provider.done
    /\ LET r == AnalyzeIntentResult(parseIn.request, parseIn.content)
       IN  parseOut' = [parseOut EXCEPT !.provider =
                            [done |-> TRUE, err |-> r.err, response |-> r.response]]
    /\ UNCHANGED <<parseIn, dispatchVars, providerVars>>

ParseNext == ParseHandler \/ ParseProvider

InitParse == DispatchInit /\ ProviderInit /\ ParseInit

SpecParse == InitParse /\ [][ParseNext]_vars

Init == DispatchInit /\ ProviderInit /\ ParseIdle

\* The service as wired by main(): the provider is constructed but
\* ProcessIntent never calls it, so the Manager and the store stay as built.
Next ==
    \/ \E data \in Bodies : Publish(data)
    \/ \E respondOk \in BOOLEAN : Deliver(respondOk)

Spec == Init /\ [][Next]_vars

\* The provider and the Manager under concurrent callers.
ProviderNext ==
    \/ Tick
    \/ \E t \in Tasks, request \in Requests : StartAnalyzeIntent(t, request)
    \/ \E t \in Tasks : GocLookup(t)
    \/ \E t \in Tasks, ok \in BOOLEAN : GocLoad(t, ok)
    \/ \E t \in Tasks : GocCache(t)
    \/ \E t \in Tasks : AddMessage(t)
    \/ \E t \in Tasks, ok \in BOOLEAN : SaveLoad(t, ok)
    \/ \E t \in Tasks : SaveUpdate(t)
    \/ \E t \in Tasks, ok \in BOOLEAN : SaveWrite(t, ok)
    \/ \E t \in Tasks, kind \in HttpFailures : HttpFail(t, kind)
    \/ \E t \in Tasks, content \in Completions : HttpOk(t, content)

SpecProvider == Init /\ [][ProviderNext]_vars

\* One caller of AnalyzeIntent, one turn after another; Redis and the
\* backend may fail.
TurnNext ==
    \/ Tick
    \/ \E request \in Requests : StartAnalyzeIntent("t1", request)
    \/ GocLookup("t1")
    \/ \E ok \in BOOLEAN : GocLoad("t1", ok)
    \/ GocCache("t1")
    \/ AddMessage("t1")
    \/ \E ok \in BOOLEAN : SaveLoad("t1", ok)
    \/ SaveUpdate("t1")
    \/ \E ok \in BOOLEAN : SaveWrite("t1", ok)
    \/ \E kind \in HttpFailures : HttpFail("t1", kind)
    \/ \E content \in Completions : HttpOk("t1", content)

SpecTurn == Init /\ [][TurnNext]_vars

\* The steps of the caller's goroutine inside AnalyzeIntent.  The goroutine
\* keeps running; every Redis command and the HTTP exchange carry the
\* request's context, so each returns, with an answer or with an error, at
\* the latest when the deadline expires.
TurnRuns ==
    \/ GocLookup("t1")
    \/ \E ok \in BOOLEAN : GocLoad("t1", ok)
    \/ GocCache("t1")
    \/ AddMessage("t1")
    \/ \E ok \in BOOLEAN : SaveLoad("t1", ok)
    \/ SaveUpdate("t1")
    \/ \E ok \in BOOLEAN : SaveWrite("t1", ok)
    \/ \E kind \in HttpFailures : HttpFail("t1", kind)
    \/ \E content \in Completions : HttpOk("t1", content)

\* SpecTurn with the goroutine scheduled: a call that can take a step
\* eventually takes one.  Nothing obliges the backend to answer.
SpecTurnFair == SpecTurn /\ WF_vars(TurnRuns)

\* The Manager and the store under concurrent callers of the Manager's
\* methods.
MemoryNext ==
    \/ Tick
    \/ \E t \in Tasks, call \in ConcurrentCalls, request \in Requests :
            StartManagerCall(t, call, request)
    \/ \E t \in Tasks : GocLookup(t)
    \/ \E t \in Tasks, ok \in BOOLEAN : GocLoad(t, ok)
    \/ \E t \in Tasks : GocCache(t)
    \/ \E t \in Tasks : AddMessage(t)
    \/ \E t \in Tasks, ok \in BOOLEAN : SaveLoad(t, ok)
    \/ \E t \in Tasks : SaveUpdate(t)
    \/ \E t \in Tasks, ok \in BOOLEAN : SaveWrite(t, ok)
    \/ \E t \in Tasks, ok \in BOOLEAN : TouchLoad(t, ok)
    \/ \E t \in Tasks : TouchUpdate(t)
    \/ \E t \in Tasks, ok \in BOOLEAN : TouchWrite(t, ok)
    \/ \E t \in Tasks : ClearCache(t)
    \/ \E t \in Tasks, ok \in BOOLEAN : ClearDel(t, ok)

SpecMemory == Init /\ [][MemoryNext]_vars

\* One caller appending user and assistant turns one after another, with the
\* Store available.
AppendsNext ==
    \/ Tick
    \/ \E call \in {"SaveUserMessage", "SaveAssistantMessage"}, request \in Requests :
            StartManagerCall("t1", call, request)
    \/ GocLookup("t1")
    \/ GocLoad("t1", TRUE)
    \/ GocCache("t1")
    \/ AddMessage("t1")
    \/ SaveLoad("t1", TRUE)
    \/ SaveUpdate("t1")
    \/ SaveWrite("t1", TRUE)

SpecAppends == Init /\ [][AppendsNext]_vars

\* One caller making Manager calls one after another: no two operations are
\* ever in flight together.  Redis may fail.
SerialNext ==
    \/ Tick
    \/ \E call \in ManagerCalls, request \in Requests :
            StartManagerCall("t1", call, request)
    \/ GocLookup("t1")
    \/ \E ok \in BOOLEAN : GocLoad("t1", ok)
    \/ GocCache("t1")
    \/ AddMessage("t1")
    \/ FormatHistory("t1")
    \/ \E ok \in BOOLEAN : SaveLoad("t1", ok)
    \/ SaveUpdate("t1")
    \/ \E ok \in BOOLEAN : SaveWrite("t1", ok)
    \/ \E ok \in BOOLEAN : TouchLoad("t1", ok)
    \/ TouchUpdate("t1")
    \/ \E ok \in BOOLEAN : TouchWrite("t1", ok)
    \/ ClearCache("t1")
    \/ \E ok \in BOOLEAN : ClearDel("t1", ok)

SpecSerial == Init /\ [][SerialNext]_vars

\* The records an earlier run of the service can have left in Redis for a
\* session: user and assistant messages in any order, written through
\* SaveMessage (user id set, count and started_at as SaveMessage sets them),
\* all at the instant 0.
StoredRoles == {"user", "assistant"}

StoredRecord(sessionID, roles) ==
    SessionJSON([session_id |-> sessionID,
                 user_id |-> UserIDOf(sessionID),
                 messages |-> [i \in 1..Len(roles) |->
                                [role |-> roles[i], content |-> "hi",
                                 timestamp |-> [wall |-> 0, mono |-> FALSE]]],
                 started_at |-> [wall |-> 0, mono |-> FALSE],
                 last_activity |-> [wall |-> 0, mono |-> FALSE],
                 message_count |-> Len(roles)])

StoredHistories == UNION {[1..n -> StoredRoles] : n \in 1..MaxStored}

\* A process started against a Redis that is empty or holds the record of
\* session "s1" from an earlier run; the cache of the new process is empty.
InitRestart ==
    /\ DispatchInit
    /\ ParseIdle
    /\ now = 0
    /\ store \in {<<>>} \cup {[k \in {"s1"} |-> StoredRecord("s1", roles)] :
                                roles \in StoredHistories}
    /\ sessions = <<>>
    /\ bufs = <<>>
    /\ tasks = [t \in Tasks |-> IdleTask]
    /\ calls = 0

\* One caller reading and extending conversations after the restart; Redis
\* may fail.
RestartNext ==
    \/ Tick
    \/ \E call \in {"GetOrCreateSession", "SaveUserMessage", "SaveAssistantMessage",
                     "GetFormattedHistory"}, request \in Requests :
            StartManagerCall("t1", call, request)
    \/ GocLookup("t1")
    \/ \E ok \in BOOLEAN : GocLoad("t1", ok)
    \/ GocCache("t1")
    \/ AddMessage("t1")
    \/ FormatHistory("t1")
    \/ \E ok \in BOOLEAN : SaveLoad("t1", ok)
    \/ SaveUpdate("t1")
    \/ \E ok \in BOOLEAN : SaveWrite("t1", ok)

SpecRestart == InitRestart /\ [][RestartNext]_vars

\* The user ids callers pass to the append calls; "" is a caller that has
\* none.
UserIds == {"user_s1", "user_s2", ""}

\* One caller appending turns under user ids of its choosing, in a process
\* started over an empty Redis or an earlier record; Redis may fail.
UsersNext ==
    \/ Tick
    \/ \E call \in {"SaveUserMessage", "SaveAssistantMessage"}, request \in Requests,
          userID \in UserIds :
            StartAppendAs("t1", call, request, userID)
    \/ GocLookup("t1")
    \/ \E ok \in BOOLEAN : GocLoad("t1", ok)
    \/ GocCache("t1")
    \/ AddMessage("t1")
    \/ \E ok \in BOOLEAN : SaveLoad("t1", ok)
    \/ SaveUpdate("t1")
    \/ \E ok \in BOOLEAN : SaveWrite("t1", ok)

SpecUsers == InitRestart /\ [][UsersNext]_vars

\* Two callers appending turns concurrently with Redis available, and, once
\* their calls have all returned, one more GetOrCreateSession by the first.
RaceNext ==
    \/ Tick
    \/ \E t \in Tasks, call \in {"SaveUserMessage", "SaveAssistantMessage"},
          request \in Requests :
            StartManagerCall(t, call, request)
    \/ \E request \in Requests : StartNextLoad("t1", request)
    \/ \E t \in Tasks : GocLookup(t)
    \/ \E t \in Tasks : GocLoad(t, TRUE)
    \/ \E t \in Tasks : GocCache(t)
    \/ \E t \in Tasks : AddMessage(t)
    \/ \E t \in Tasks : SaveLoad(t, TRUE)
    \/ \E t \in Tasks : SaveUpdate(t)
    \/ \E t \in Tasks : SaveWrite(t, TRUE)

SpecRace == Init /\ [][RaceNext]_vars

\* One caller: appends and clears, Redis failing at will, and then
\* GetOrCreateSession and GetFormattedHistory calls.
FollowUpNext ==
    \/ Tick
    \/ \E call \in {"SaveUserMessage", "SaveAssistantMessage", "ClearSession"},
          request \in Requests :
            StartManagerCall("t1", call, request)
    \/ \E request \in Requests : StartNextLoad("t1", request)
    \/ \E request \in Requests : StartNextHistory("t1", request)
    \/ GocLookup("t1")
    \/ \E ok \in BOOLEAN : GocLoad("t1", ok)
    \/ GocCache("t1")
    \/ AddMessage("t1")
    \/ FormatHistory("t1")
    \/ \E ok \in BOOLEAN : SaveLoad("t1", ok)
    \/ SaveUpdate("t1")
    \/ \E ok \in BOOLEAN : SaveWrite("t1", ok)
    \/ ClearCache("t1")
    \/ \E ok \in BOOLEAN : ClearDel("t1", ok)

SpecFollowUp == Init /\ [][FollowUpNext]_vars

(***************************************************************************)
(* Claims about the dispatcher and the handler (specification Spec).       *)
(***************************************************************************)
\* The subscription has run handleIntentRequest on message m.
Handled(m) == \A i \in 1..Len(inbox) : inbox[i] # m

\* The request handleIntentRequest decodes from message m, and the error.
DecodedOf(m) == UnmarshalRequest(msgs[m])

\* The records of a session's Store entry ("" when there is none).
StoredMessages(st, sessionID) ==
    IF sessionID \in DOMAIN st THEN st[sessionID].messages ELSE <<>>

\* A step in which handleIntentRequest runs on the message at the head of
\* the subscription.
DeliverStep == inbox # <<>> /\ inbox' = Tail(inbox)

\* C1: every message handed to handleIntentRequest has exactly one reply
\* sent on it (msg.Respond is called exactly once, whatever the body and
\* whatever the handler returned), and a message not yet handed to it has
\* none: never zero replies for a handled message, never two.
C1_ExactlyOneReply ==
    \A m \in 1..Len(msgs) :
        IF Handled(m) THEN Len(sent[m]) = 1 ELSE Len(sent[m]) = 0

\* C1 witness: a message with an undecodable body and a message that went
\* through the handler have both been replied to.
C1_Witness ==
    \E m1, m2 \in 1..Len(msgs) :
        /\ Handled(m1) /\ DecodedOf(m1).err # "" /\ Len(sent[m1]) = 1
        /\ Handled(m2) /\ proc[m2].called /\ Len(sent[m2]) = 1

\* C2: every IntentResult sent as a reply has a status among NEEDS_INFO,
\* READY and ERROR, a parameters mapping that is not nil, and a user_message
\* that is not empty.
C2_RepliesWellFormed ==
    \A m \in 1..Len(msgs) : \A i \in 1..Len(sent[m]) :
        /\ sent[m][i].status \in {StatusNeedsInfo, StatusReady, StatusError}
        /\ sent[m][i].parameters # Nil
        /\ sent[m][i].user_message # ""

\* C2 witness: a model-derived reply, a validation-failure reply and an
\* undecodable-request reply have been sent.
C2_Witness ==
    \E m1, m2 \in 1..Len(msgs) :
        /\ Len(sent[m1]) = 1 /\ sent[m1][1].status = StatusNeedsInfo
        /\ Len(sent[m2]) = 1 /\ sent[m2][1].status = StatusError
        /\ (proc[m2].called \/ DecodedOf(m2).err # "")

C4_UndecodableRequest ==
    [][(DeliverStep /\ DecodedOf(Head(inbox)).err # "") =>
        LET m == Head(inbox)
        IN  /\ Len(sent'[m]) = 1
            /\ sent'[m][1].status = StatusError
            /\ sent'[m][1].error_code = ErrorParseError
            /\ sent'[m][1].session_id = DecodedOf(m).request.session_id
            /\ (~msgs[m].syntax_ok => sent'[m][1].session_id = "")
            /\ ~proc'[m].called
            /\ UNCHANGED <<store, sessions, bufs, tasks, calls>>]_vars

\* C4 witness: a reply to an undecodable body that carries the session id
\* that was decoded before the type error.
C4_Witness ==
    \E m \in 1..Len(msgs) :
        /\ Handled(m)
        /\ DecodedOf(m).err # ""
        /\ Len(sent[m]) = 1
        /\ sent[m][1].session_id \in SessionIds
        /\ sent[m][1].error_code = ErrorParseError

\* C5: for a decoded request whose session_id or user_message is empty,
\* ProcessIntent returns an ERROR result with error_code PARSE_ERROR, which
\* is the reply; no completion call is started and nothing is appended to
\* the session's cache or Store record.
C5_InvalidRequest ==
    [][(/\ DeliverStep
        /\ DecodedOf(Head(inbox)).err = ""
        /\ \/ DecodedOf(Head(inbox)).request.session_id = ""
           \/ DecodedOf(Head(inbox)).request.user_message = "") =>
        LET m == Head(inbox)
        IN  /\ proc'[m].called
            /\ proc'[m].err = ""
            /\ proc'[m].response.status = StatusError
            /\ proc'[m].response.error_code = ErrorParseError
            /\ sent'[m] = <<proc'[m].response>>
            /\ UNCHANGED <<store, sessions, bufs, tasks, calls>>]_vars

\* C5 witness: a request with a session id and an empty user_message has
\* been answered with PARSE_ERROR.
C5_Witness ==
    \E m \in 1..Len(msgs) :
        /\ Handled(m)
        /\ DecodedOf(m).err = ""
        /\ DecodedOf(m).request.session_id # ""
        /\ DecodedOf(m).request.user_message = ""
        /\ Len(sent[m]) = 1
        /\ sent[m][1].error_code = ErrorParseError

\* C20: handling of distinct messages is not serialized: whenever two
\* messages for different sessions are pending on the subscription, the
\* later one can be handled and replied to while the earlier one still has
\* no reply (its handler has not completed).
C20_HandlingNotSerialized ==
    \A i, j \in 1..Len(inbox) :
        (/\ i < j
         /\ DecodedOf(inbox[i]).err = "" /\ DecodedOf(inbox[j]).err = ""
         /\ DecodedOf(inbox[i]).request.session_id
                # DecodedOf(inbox[j]).request.session_id)
        => ENABLED (Next /\ sent'[inbox[j]] # <<>> /\ sent'[inbox[i]] = <<>>)

(***************************************************************************)
(* Claims about the parsers (specification SpecParse).                     *)
(***************************************************************************)
\* The payload json.Unmarshal decodes from the text handed to the parsers.
PayloadOf(content) == Unmarshal(extractJSON(content))

\* The text holds a payload that decodes.
Decodes(content) ==
    extractJSON(content) # <<>> /\ PayloadOf(content).err = ""

\* C6: for every completion text whose decoded payload has no status or a
\* status other than NEEDS_INFO, READY, ERROR, the resulting IntentResult
\* has status ERROR and the fallback text as its user_message, on the
\* handler's path (ParseLLMResponse, then validateAndCleanResponse) and on
\* the provider's path (parseIntentResponse).
C6_InvalidStatusForcedToError ==
    (Decodes(parseIn.content)
     /\ PayloadOf(parseIn.content).response.status \notin validStatuses) =>
        /\ parseOut.handler.done =>
            /\ parseOut.handler.response.status = StatusError
            /\ parseOut.handler.response.user_message = FallbackMessage
        /\ parseOut.provider.done =>
            /\ parseOut.provider.err = ""
            /\ parseOut.provider.response.status = StatusError
            /\ parseOut.provider.response.user_message = FallbackMessage

\* C10: the session_id of the IntentResult returned for a request is the
\* request's session_id, whatever session_id the model's JSON holds, on the
\* handler's path and on the provider's path.
C10_SessionIdStamped ==
    /\ parseOut.handler.done =>
        parseOut.handler.response.session_id = parseIn.request.session_id
    /\ (parseOut.provider.done /\ parseOut.provider.err = "") =>
        parseOut.provider.response.session_id = parseIn.request.session_id

\* C10 witness: both paths have returned a result for a text whose JSON
\* names another session.
C10_Witness ==
    /\ Decodes(parseIn.content)
    /\ PayloadOf(parseIn.content).response.session_id = "other"
    /\ parseOut.handler.done
    /\ parseOut.handler.response.session_id = parseIn.request.session_id
    /\ parseOut.provider.done
    /\ parseOut.provider.err = ""
    /\ parseOut.provider.response.session_id = parseIn.request.session_id

\* C14: for every completion text of the form prefix + J + suffix, J a
\* well-formed JSON object that decodes, whatever the prefix and the suffix
\* (braces included), both parsing paths return what they return for J
\* alone: exactly the fields of J.
C14_EmbeddedObjectRecovered ==
    \A i, j \in 1..Len(parseIn.content) :
        LET J == SubSeq(parseIn.content, i, j)
        IN  (ValidJSON(J) /\ Unmarshal(J).err = "") =>
                /\ parseOut.handler.done =>
                    parseOut.handler.response =
                        ProcessLLMResponse(parseIn.request,
                                           [content |-> J, err |-> ""]).response
                /\ parseOut.provider.done =>
                    /\ parseOut.provider.err = ""
                    /\ parseOut.provider.response =
                        AnalyzeIntentResult(parseIn.request, J).response

(***************************************************************************)
(* Claims about completion failures (specification SpecProvider) and about *)
(* persistence behind the dispatcher (specification Spec).                 *)
(***************************************************************************)
\* The reply the error check of ProcessIntent builds from what AnalyzeIntent
\* handed back for a finished task.
ReplyFor(task) ==
    IF task.err = ""
    THEN task.resp
    ELSE ProcessLLMResponse(task.req, [content |-> <<>>, err |-> task.err]).response

\* C7: when the completion call exceeds the deadline, the request ends with
\* an IntentResult of status ERROR, error_code LLM_API_TIMEOUT (not
\* LLM_API_FAILED) and the fallback user_message, be it the result
\* AnalyzeIntent returns or the reply built from the error it returns.
C7_TimeoutYieldsTimeoutResult ==
    \A t \in Tasks :
        (tasks[t].pc = "done" /\ tasks[t].http = "timeout") =>
            /\ ReplyFor(tasks[t]).status = StatusError
            /\ ReplyFor(tasks[t]).error_code = ErrorLLMTimeout
            /\ ReplyFor(tasks[t]).user_message = FallbackMessage

C9_ReplyPersistsTwoTurns ==
    [][(/\ DeliverStep
        /\ DecodedOf(Head(inbox)).err = ""
        /\ validateRequest(DecodedOf(Head(inbox)).request) = ""
        /\ handleIntentRequest(msgs[Head(inbox)]).sends[1].error_code = Nil) =>
        LET m == Head(inbox)
            request == DecodedOf(m).request
            before == StoredMessages(store, request.session_id)
            after == StoredMessages(store', request.session_id)
            n == Len(after)
        IN  /\ n = Len(before) + 2
            /\ after[n - 1].role = "user"
            /\ after[n - 1].content = request.user_message
            /\ after[n].role = "assistant"
            /\ after[n].content = sent'[m][1].user_message]_vars

\* C19: when a Manager call of AnalyzeIntent failed (the Store was
\* unreachable while the user turn or the assistant turn was persisted, or
\* while the history was read) and the backend answered with a payload that
\* parses, AnalyzeIntent returns no error and the result is the one derived
\* from the payload: status and the other fields as parsed, no error_code.
C19_StoreFailureDoesNotEscalate ==
    \A t \in Tasks :
        (/\ tasks[t].pc = "done"
         /\ tasks[t].http = "ok"
         /\ tasks[t].memErr
         /\ parseIntentResponse(tasks[t].content).err = "") =>
            /\ tasks[t].err = ""
            /\ tasks[t].resp =
                    AnalyzeIntentResult(tasks[t].req, tasks[t].content).response
            /\ tasks[t].resp.status =
                    parseIntentResponse(tasks[t].content).response.status
            /\ tasks[t].resp.error_code = Nil

\* C19 witness: AnalyzeIntent has returned a READY result with the model's
\* user_message although no turn could be persisted: the Store holds nothing
\* and a Manager call failed.
C19_Witness ==
    \E t \in Tasks :
        /\ tasks[t].pc = "done"
        /\ tasks[t].http = "ok"
        /\ tasks[t].memErr
        /\ tasks[t].err = ""
        /\ tasks[t].resp.status = StatusReady
        /\ tasks[t].resp.user_message = "ok"
        /\ tasks[t].resp.error_code = Nil
        /\ store = <<>>

\* The last message of a session's Store record is msg (role and content).
LastStoredIs(sessionID, role, content) ==
    LET stored == StoredMessages(store, sessionID)
    IN  /\ Len(stored) > 0
        /\ stored[Len(stored)].role = role
        /\ stored[Len(stored)].content = content

\* C24: the handling of a valid request persists the user turn before the
\* completion call, the assistant turn after the result is parsed, and
\* replies after that: once the reply to a valid request has been sent with
\* a model-derived result, the session's Store record holds the request's
\* user message and, after it, the reply's text as its last message.
C24_PersistBeforeReply ==
    \A m \in 1..Len(msgs) :
        (/\ Handled(m)
         /\ DecodedOf(m).err = ""
         /\ validateRequest(DecodedOf(m).request) = ""
         /\ sent[m][1].error_code = Nil) =>
            LET sid == DecodedOf(m).request.session_id
                stored == StoredMessages(store, sid)
            IN  /\ LastStoredIs(sid, "assistant", sent[m][1].user_message)
                /\ \E i \in 1..(Len(stored) - 1) :
                        /\ stored[i].role = "user"
                        /\ stored[i].content = DecodedOf(m).request.user_message

ParsedTurn(t) ==
    /\ tasks[t].http = "ok"
    /\ tasks[t].err = ""
    /\ parseIntentResponse(tasks[t].content).err = ""

\* C25: a turn that ends in a completion failure (deadline, transport
\* error, non-200 status) or in a parse error appends no assistant message:
\* the step that ends it changes neither the Store nor a buffer, the user
\* turn persisted earlier is still the session's last stored message, and a
\* step appends an assistant message to a buffer or to a Store record only
\* in a turn that has a parsed result.
C25_FailedTurnAddsNoAssistant ==
    [][LET sid == tasks["t1"].req.session_id
           after == StoredMessages(store', sid)
       IN  /\ (tasks["t1"].pc = "http" /\ tasks'["t1"].pc = "done"
                    /\ tasks'["t1"].err # "") =>
                    /\ store' = store
                    /\ bufs' = bufs
                    /\ sessions' = sessions
                    /\ ~tasks["t1"].memErr =>
                            /\ Len(after) > 0
                            /\ after[Len(after)].role = "user"
                            /\ after[Len(after)].content = tasks["t1"].req.user_message
           /\ \A s \in SessionIds :
                (/\ Len(StoredMessages(store', s)) > Len(StoredMessages(store, s))
                 /\ StoredMessages(store', s)[Len(StoredMessages(store', s))].role
                        = "assistant") => ParsedTurn("t1")
           /\ \A b \in 1..Len(bufs) :
                (/\ Len(bufs'[b]) > Len(bufs[b])
                 /\ bufs'[b][Len(bufs'[b])].type = "ai") => ParsedTurn("t1")]_vars

\* C25 witness: a turn has ended with a parse error (the backend answered
\* prose without an object); the Store record and the buffer of the session
\* hold the user turn and nothing else.
C25_Witness ==
    /\ tasks["t1"].pc = "done"
    /\ tasks["t1"].http = "ok"
    /\ tasks["t1"].err # ""
    /\ calls = 1
    /\ StoredMessages(store, "s1") # <<>>
    /\ LastStoredIs("s1", "user", "hi")
    /\ Len(StoredMessages(store, "s1")) = 1
    /\ "s1" \in DOMAIN sessions
    /\ Len(bufs[sessions["s1"]]) = 1
    /\ bufs[sessions["s1"]][1].type = "human"

\* C26: when a turn has returned a result and its persistence calls
\* succeeded, an assistant message persisted for the turn carries the
\* user_message of the reply (the result after validateAndCleanResponse),
\* and when that reply is not a failure the session's last stored message is
\* the assistant turn with that text.
C26_AssistantTurnIsReplyText ==
    (/\ tasks["t1"].pc = "done"
     /\ tasks["t1"].http = "ok"
     /\ tasks["t1"].err = ""
     /\ ~tasks["t1"].memErr) =>
        LET reply == validateAndCleanResponse(tasks["t1"].resp)
            stored == StoredMessages(store, tasks["t1"].req.session_id)
            persisted == Len(stored) > 0 /\ stored[Len(stored)].role = "assistant"
        IN  /\ persisted => stored[Len(stored)].content = reply.user_message
            /\ reply.status # StatusError => persisted

(***************************************************************************)
(* Claims about the Manager and the store (specification SpecMemory).      *)
(***************************************************************************)
\* A step in which the Manager call of task t returns to its caller.
Returns(t) == tasks[t].pc \notin {"idle", "done"} /\ tasks'[t].pc = "done"

\* The session has neither a cache entry nor a Store record.
Unseen(sessionID) ==
    sessionID \notin DOMAIN sessions /\ sessionID \notin DOMAIN store

\* C11: when GetOrCreateSession returns for a session id that has no cache
\* entry and no Store record, it returns no error and a buffer with zero
\* messages, also when the Store read failed.
C11_LoadOrCreateNeverFails ==
    [][\A t \in Tasks :
        (/\ Returns(t)
         /\ tasks[t].phase = "GetOrCreateSession"
         /\ Unseen(tasks[t].req.session_id)) =>
            /\ ~tasks'[t].memErr
            /\ tasks'[t].buf \in 1..Len(bufs')
            /\ bufs'[tasks'[t].buf] = <<>>]_vars

\* C12: when appends run one after another on a session that was absent
\* (Store available), each persisted append leaves a record whose
\* message_count is one more than before (so N after N appends), whose
\* started_at is the timestamp of its first message and whose last_activity
\* is the timestamp of its last message.
C12_SequentialAppendsMetadata ==
    [][(tasks["t1"].pc = "save_write" /\ tasks'["t1"].pc = "done") =>
        LET sid == tasks["t1"].req.session_id
            before == Len(StoredMessages(store, sid))
            rec == store'[sid]
        IN  /\ rec.message_count = before + 1
            /\ Len(rec.messages) = before + 1
            /\ rec.started_at = rec.messages[1].timestamp
            /\ rec.last_activity = rec.messages[before + 1].timestamp]_vars

\* A step in which task t's saveSession stores its record (SET answered).
Saves(t) ==
    /\ tasks[t].pc \in {"save_write", "touch_write"}
    /\ tasks'[t].pc = "done"
    /\ ~tasks'[t].memErr

\* Two time.Time values denote the same instant (Time.Equal).
SameInstant(a, b) == a.wall = b.wall

C15_ClearIdempotent ==
    [][\A sid \in SessionIds :
        (tasks["t1"].phase = "ClearSession" /\ tasks["t1"].req.session_id = sid) =>
            /\ (Returns("t1") /\ ~tasks'["t1"].memErr) =>
                    (sid \notin DOMAIN sessions' /\ sid \notin DOMAIN store')
            /\ (~Free("t1") /\ tasks'["t1"] # tasks["t1"] /\ Unseen(sid)) =>
                    (sessions' = sessions /\ store' = store)]_vars

\* C15 witness: the first call ever made, a ClearSession of a session that
\* never existed, has returned without error, and the session has neither
\* cache entry nor Store record.
C15_Witness ==
    /\ calls = 1
    /\ tasks["t1"].pc = "done"
    /\ tasks["t1"].phase = "ClearSession"
    /\ ~tasks["t1"].memErr
    /\ Unseen(tasks["t1"].req.session_id)

\* C16: in every reachable state, under any interleaving of appends,
\* UpdateActivity and ClearSession by concurrent callers, every record in the
\* Store has message_count equal to the number of its messages.
C16_MessageCountIsLength ==
    \A sid \in DOMAIN store :
        store[sid].message_count = Len(store[sid].messages)

\* C16 witness: two appends to one session have raced: both returned without
\* error and the cached buffer holds both messages, while the Store record
\* holds one message, with message_count 1.
C16_Witness ==
    \E sid \in DOMAIN store \cap DOMAIN sessions :
        /\ \A t \in Tasks :
            /\ tasks[t].pc = "done"
            /\ tasks[t].phase \in {"SaveUserMessage", "SaveAssistantMessage"}
            /\ tasks[t].req.session_id = sid
            /\ ~tasks[t].memErr
        /\ Len(bufs[sessions[sid]]) = 2
        /\ Len(store[sid].messages) = 1
        /\ store[sid].message_count = 1

\* C17: for every session, started_at of the Store record is set once, to
\* the timestamp of the first message appended: the record of a session with
\* messages has the first message's timestamp as started_at, and no write
\* (append, UpdateActivity, an append racing with the first one) changes
\* started_at while the record exists.
C17_StartedAtSetOnce ==
    [][\A sid \in SessionIds :
        /\ (sid \in DOMAIN store' /\ Len(store'[sid].messages) > 0) =>
                store'[sid].started_at = store'[sid].messages[1].timestamp
        /\ (sid \in DOMAIN store /\ sid \in DOMAIN store') =>
                store'[sid].started_at = store[sid].started_at]_vars

\* C18: for every session, the last_activity of the Store record never
\* decreases from one stored value to the next, whichever writes (appends,
\* UpdateActivity, by concurrent callers) produce them; the clock never
\* goes back.
C18_LastActivityMonotonic ==
    [][\A sid \in SessionIds :
        (sid \in DOMAIN store /\ sid \in DOMAIN store') =>
            store'[sid].last_activity.wall >= store[sid].last_activity.wall]_vars

\* A finished task whose call was a successful append to session sid.
Appended(t, sid) ==
    /\ tasks[t].pc = "done"
    /\ tasks[t].phase \in {"SaveUserMessage", "SaveAssistantMessage"}
    /\ tasks[t].req.session_id = sid
    /\ ~tasks[t].memErr

\* C22: when the two tasks' first calls were overlapping appends to the same
\* session, unseen before, and both succeeded, the resident cache entry of
\* the session holds both turns: the one each task appended to the
\* projection GetOrCreateSession handed it.
C22_FirstTouchKeepsTurns ==
    \A sid \in SessionIds :
        (calls = 2 /\ Appended("t1", sid) /\ Appended("t2", sid)) =>
            /\ sid \in DOMAIN sessions
            /\ Len(bufs[sessions[sid]]) = 2

\* The label a history line carries for a message of the given chat type.
RoleLabel(type) ==
    CASE type = "human" -> "User: "
      [] type = "ai" -> "Assistant: "
      [] type = "system" -> "System: "

\* The text is the history of the buffer: the sentinel for no message, else a
\* label, the content and a line end for each message, in the buffer's order.
IsHistoryOf(text, buffer) ==
    /\ (text = <<NoHistory>>) <=> (Len(buffer) = 0)
    /\ Len(buffer) > 0 =>
            /\ Len(text) = 3 * Len(buffer)
            /\ \A i \in 1..Len(buffer) :
                    /\ text[3 * i - 2] = RoleLabel(buffer[i].type)
                    /\ text[3 * i - 1] = buffer[i].content
                    /\ text[3 * i] = NewLine

\* Buffers of every chat type, for the formatting taken alone.
ChatBuffers ==
    UNION {[1..n -> [type : {"human", "ai", "system"}, content : {"hi", "ok"}]] :
                n \in 0..2}

\* C23: GetFormattedHistory returns the sentinel "No previous conversation."
\* exactly when the buffer it obtained holds no message, and otherwise one
\* line per message, in the buffer's order, labelled "User: ", "Assistant: "
\* or "System: " by the message's type; no step of the call changes the
\* Store or a message of an existing buffer.
C23_FormattedHistory ==
    [][/\ \A buffer \in ChatBuffers : IsHistoryOf(GetFormattedHistory(buffer), buffer)
       /\ \A t \in Tasks :
            /\ (tasks[t].pc = "history_read" /\ tasks'[t].pc = "done") =>
                    /\ IsHistoryOf(tasks'[t].hist, bufs[tasks[t].buf])
                    /\ tasks[t].buf = sessions[tasks[t].req.session_id]
            /\ (/\ tasks[t].phase = "GetFormattedHistory"
                /\ ~Free(t)
                /\ tasks'[t] # tasks[t]) =>
                    /\ store' = store
                    /\ \A b \in 1..Len(bufs) : bufs'[b] = bufs[b]]_vars

\* C23 witness: GetFormattedHistory has returned two lines, the user's and
\* then the assistant's, for a session whose buffer holds those two
\* messages.
C23_Witness ==
    /\ tasks["t1"].pc = "done"
    /\ tasks["t1"].phase = "GetFormattedHistory"
    /\ ~tasks["t1"].memErr
    /\ Len(bufs[tasks["t1"].buf]) = 2
    /\ tasks["t1"].hist =
            <<"User: ", "hi", NewLine, "Assistant: ", "hi", NewLine>>

\* The role a chat message of the given type was stored under.
RoleOf(type) ==
    CASE type = "human" -> "user"
      [] type = "ai" -> "assistant"
      [] type = "system" -> "system"

\* The buffer holds the messages of the record: as many, in the same order,
\* each with the record's role and content.
Projects(buffer, messages) ==
    /\ Len(buffer) = Len(messages)
    /\ \A i \in 1..Len(messages) :
            /\ RoleOf(buffer[i].type) = messages[i].role
            /\ buffer[i].content = messages[i].content

\* C27: on a cache miss GetOrCreateSession builds a new buffer holding every
\* message of the session's Store record, in the record's order, with the
\* record's roles and contents, caches it under the session id and returns
\* it; on a cache hit it returns the resident buffer and does not go to the
\* Store (it changes nothing).
C27_LoadOrCreateReplays ==
    [][\A t \in Tasks :
        LET sid == tasks[t].req.session_id
            b == Len(bufs) + 1
        IN  /\ (tasks[t].pc = "goc_cache" /\ tasks'[t].pc # "goc_cache") =>
                    /\ Len(bufs') = b
                    /\ Projects(bufs'[b], StoredMessages(store, sid))
                    /\ \A i \in 1..Len(bufs) : bufs'[i] = bufs[i]
                    /\ sid \in DOMAIN sessions'
                    /\ sessions'[sid] = b
                    /\ tasks'[t].buf = b
                    /\ store' = store
            /\ (/\ tasks[t].pc = "goc_lookup"
                /\ tasks'[t].pc # "goc_lookup"
                /\ sid \in DOMAIN sessions) =>
                    /\ tasks'[t].pc # "goc_load"
                    /\ tasks'[t].buf = sessions[sid]
                    /\ UNCHANGED <<store, sessions, bufs>>]_vars

\* C27 witness: the first GetOrCreateSession of a restarted process has
\* returned, for a session whose Store record holds a user and an assistant
\* message, the cached buffer with those two messages in that order.
C27_Witness ==
    /\ calls = 1
    /\ tasks["t1"].pc = "done"
    /\ tasks["t1"].phase = "GetOrCreateSession"
    /\ "s1" \in DOMAIN store
    /\ Len(store["s1"].messages) = 2
    /\ store["s1"].messages[1].role = "user"
    /\ store["s1"].messages[2].role = "assistant"
    /\ "s1" \in DOMAIN sessions
    /\ tasks["t1"].buf = sessions["s1"]
    /\ bufs[sessions["s1"]] =
            <<[type |-> "human", content |-> "hi"], [type |-> "ai", content |-> "hi"]>>

\* The user id of a session's Store record ("" when there is no record).
StoredUser(st, sessionID) ==
    IF sessionID \in DOMAIN st THEN st[sessionID].user_id ELSE ""

\* C28: an append that writes a session's Store record leaves the record's
\* user_id as it was when it was not empty, whatever user id the caller
\* passed, and sets it to the caller's user id when it was empty (or there
\* was no record).
C28_UserIdSetOnlyWhenEmpty ==
    [][(tasks["t1"].pc = "save_write" /\ store' # store) =>
        LET sid == tasks["t1"].req.session_id
        IN  /\ sid \in DOMAIN store'
            /\ store'[sid].user_id =
                    IF StoredUser(store, sid) = "" THEN tasks["t1"].userID
                    ELSE StoredUser(store, sid)]_vars

\* C28 witness: an append made under the user id "user_s2" has succeeded on
\* the session "s1", whose record keeps the user id "user_s1" it had.
C28_Witness ==
    /\ tasks["t1"].pc = "done"
    /\ tasks["t1"].phase \in {"SaveUserMessage", "SaveAssistantMessage"}
    /\ tasks["t1"].req.session_id = "s1"
    /\ tasks["t1"].userID = "user_s2"
    /\ ~tasks["t1"].memErr
    /\ "s1" \in DOMAIN store
    /\ store["s1"].user_id = "user_s1"
    /\ Len(store["s1"].messages) >= 2

\* C29: the write of UpdateActivity changes nothing of the session's Store
\* record but last_activity: the record's messages, message_count, user_id
\* and started_at are after the write what they were before it, also when
\* an append to the same session runs at the same time (the other caller
\* makes no call but appends); and no step of the call changes the cache or
\* a buffer.
C29_TouchChangesOnlyActivity ==
    [][\A t \in Tasks :
        LET sid == tasks[t].req.session_id
        IN  /\ (/\ tasks[t].pc = "touch_write" /\ tasks'[t].pc = "done"
                /\ sid \in DOMAIN store
                /\ \A u \in Tasks \ {t} :
                        tasks[u].phase \in {"", "SaveUserMessage",
                                            "SaveAssistantMessage"}) =>
                    /\ sid \in DOMAIN store'
                    /\ store'[sid].messages = store[sid].messages
                    /\ store'[sid].message_count = store[sid].message_count
                    /\ store'[sid].user_id = store[sid].user_id
                    /\ store'[sid].started_at = store[sid].started_at
            /\ (tasks[t].pc \in {"touch_load", "touch_update", "touch_write"}
                    /\ tasks'[t] # tasks[t]) =>
                    UNCHANGED <<sessions, bufs>>]_vars

\* C30: a successful write of an append makes the session's Store record
\* exactly the record that append computed from the copy it had read (the
\* copy with its own message added as the last one), whatever another
\* append stored since the read; the append reports success.  When two
\* appends overlap, the one that writes last therefore decides the record.
C30_LastWriterWins ==
    [][\A t \in Tasks :
        (/\ tasks[t].pc = "save_write"
         /\ tasks'[t].pc = "done"
         /\ ~tasks'[t].memErr) =>
            LET sid == tasks[t].req.session_id
                written == store'[sid].messages
            IN  /\ store'[sid] = SessionJSON(tasks[t].rec)
                /\ Len(written) > 0
                /\ written[Len(written)].role =
                        (IF tasks[t].phase = "SaveUserMessage" THEN "user"
                         ELSE "assistant")
                /\ store'[sid].message_count = Len(written)
                /\ \A k \in DOMAIN store \ {sid} :
                        k \in DOMAIN store' /\ store'[k] = store[k]]_vars

\* C30 witness: SaveUserMessage by one task and SaveAssistantMessage by the
\* other, on one session with no record before, overlapped and both
\* returned without error; the Store record is the one the assistant's
\* append computed: one message, the assistant's, message_count 1 after two
\* successful appends.
C30_Witness ==
    /\ calls = 2
    /\ Appended("t1", "s1")
    /\ Appended("t2", "s1")
    /\ tasks["t1"].phase = "SaveUserMessage"
    /\ tasks["t2"].phase = "SaveAssistantMessage"
    /\ "s1" \in DOMAIN store
    /\ store["s1"].message_count = 1
    /\ Len(store["s1"].messages) = 1
    /\ store["s1"].messages[1].role = "assistant"

\* C31: after appends that may have raced, with Redis available throughout,
\* the next GetOrCreateSession of a session, made while nothing else runs,
\* returns a buffer whose messages are those of the session's Store record.
C31_NextLoadAgreesWithStore ==
    [][(/\ calls = MaxCalls
        /\ tasks["t1"].phase = "GetOrCreateSession"
        /\ tasks["t1"].pc \in {"goc_lookup", "goc_cache"}
        /\ tasks'["t1"].pc = "done") =>
            Projects(bufs'[tasks'["t1"].buf],
                     StoredMessages(store, tasks["t1"].req.session_id))]_vars

C33_ClearedStaysCleared ==
    \A t \in Tasks :
        (/\ tasks[t].pc = "done"
         /\ tasks[t].phase = "ClearSession"
         /\ ~tasks[t].memErr) =>
            tasks[t].req.session_id \notin DOMAIN store

\* C34: when an append (SaveUserMessage, SaveAssistantMessage) that obtained
\* the session's buffer fails in its Store write, the read or the write of
\* RedisStore.SaveMessage, it returns an error, the turn it added stays the
\* last message of the buffer, which stays the session's cache entry, and
\* the Store record holds fewer messages than the buffer; a later
\* GetFormattedHistory returns the lines of that buffer, the turn included.
C34_FailedAppendStaysInCache ==
    [][LET t == "t1"
           b == tasks[t].buf
           sid == tasks[t].req.session_id
       IN  /\ (/\ tasks[t].phase \in {"SaveUserMessage", "SaveAssistantMessage"}
               /\ tasks[t].pc \in {"save_load", "save_write"}
               /\ tasks'[t].pc = "done"
               /\ tasks'[t].memErr) =>
                    /\ store' = store
                    /\ sid \in DOMAIN sessions'
                    /\ sessions'[sid] = b
                    /\ bufs'[b] = bufs[b]
                    /\ Len(bufs'[b]) >= 1
                    /\ bufs'[b][Len(bufs'[b])] =
                            [type |-> IF tasks[t].phase = "SaveUserMessage"
                                      THEN "human" ELSE "ai",
                             content |-> tasks[t].req.user_message]
                    /\ Len(StoredMessages(store', sid)) < Len(bufs'[b])
           /\ (tasks[t].pc = "history_read" /\ tasks'[t].pc = "done") =>
                    /\ tasks'[t].hist = GetFormattedHistory(bufs[sessions[sid]])
                    /\ Len(tasks'[t].hist) >= 3 * Len(StoredMessages(store, sid))]_vars

\* C34 witness: SaveUserMessage stored and cached the first turn of s1,
\* SaveAssistantMessage found the session resident and failed in the Store,
\* and GetFormattedHistory then returned both turns while the Store record
\* holds the user's only.
C34_Witness ==
    /\ tasks["t1"].pc = "done"
    /\ tasks["t1"].phase = "GetFormattedHistory"
    /\ tasks["t1"].req.session_id = "s1"
    /\ tasks["t1"].hist = <<"User: ", "hi", NewLine, "Assistant: ", "hi", NewLine>>
    /\ "s1" \in DOMAIN store
    /\ Len(store["s1"].messages) = 1
    /\ store["s1"].messages[1].role = "user"

\* C35: ClearSession is not all-or-nothing: when the Redis DEL fails it
\* returns an error with the session's cache entry already removed and the
\* Store record left as it was; the next GetOrCreateSession of the session
\* misses the cache and returns a buffer rebuilt from that record.
C35_FailedClearKeepsRecord ==
    [][LET t == "t1"
           sid == tasks[t].req.session_id
       IN  /\ (/\ tasks[t].pc = "clear_del"
               /\ tasks'[t].pc = "done"
               /\ tasks'[t].memErr) =>
                    /\ sid \notin DOMAIN sessions'
                    /\ store' = store
           /\ (/\ tasks[t].phase = "GetOrCreateSession"
               /\ tasks[t].pc = "goc_lookup"
               /\ tasks'[t] # tasks[t]
               /\ sid \notin DOMAIN sessions) =>
                    tasks'[t].pc = "goc_load"
           /\ (/\ tasks[t].phase = "GetOrCreateSession"
               /\ tasks[t].pc = "goc_cache"
               /\ tasks'[t].pc = "done") =>
                    /\ sessions'[sid] = tasks'[t].buf
                    /\ Projects(bufs'[tasks'[t].buf], StoredMessages(store, sid))]_vars

\* C35 witness: an append stored the first turn of s1, ClearSession("s1")
\* then failed in the DEL, and the next GetOrCreateSession("s1") returned a
\* newly built buffer holding the one message of the surviving record.
C35_Witness ==
    /\ tasks["t1"].pc = "done"
    /\ tasks["t1"].phase = "GetOrCreateSession"
    /\ tasks["t1"].req.session_id = "s1"
    /\ Len(bufs) = 2
    /\ tasks["t1"].buf = 2
    /\ sessions["s1"] = 2
    /\ "s1" \in DOMAIN store
    /\ Len(store["s1"].messages) = 1
    /\ Projects(bufs[2], store["s1"].messages)

\* C36: a Store record exists only if a message was appended to it: every
\* record in the Store has message_count >= 1 and at least one message, so
\* the reading and refreshing calls (GetOrCreateSession,
\* GetFormattedHistory, UpdateActivity) on a session with no record leave it
\* without one.
C36_RecordsHoldMessages ==
    \A sid \in DOMAIN store :
        /\ store[sid].message_count >= 1
        /\ Len(store[sid].messages) >= 1

=============================================================================
